---- MODULE Spec2Model ----
(***************************************************************************)
(* A model of the asset-code cleaner (src/filter.py) and of the asset-code *)
(* comparator (src/check.py).                                              *)
(*                                                                         *)
(* Text is a sequence of characters; a character is a one-character string *)
(* (a Thai character is named by its code point, "U+0E23").  A cell of a   *)
(* sheet is a record [kind, text]: kind "str" is a text cell, "num" a      *)
(* numeric cell and "nan" an empty cell; text is what str() renders.       *)
(***************************************************************************)
EXTENDS Naturals, Sequences, FiniteSets

VARIABLES
    uploaded_file,          \* filter.py: the uploaded workbook
    pc,                     \* filter.py: the position of the script
    df,                     \* the sheet read at filter.py:68
    correct_data,           \* filter.py:73,77
    incorrect_data,         \* filter.py:74
    split_result,           \* filter.py:89
    merged_result,          \* filter.py:93,96
    tara_silom_data,        \* filter.py:99
    duplicate_wrong_data,   \* filter.py:102
    correct_no_duplicates,  \* filter.py:107
    workbook,               \* the sheets written at filter.py:117-124
    highlighted,            \* rows of 'Correct Data' filled at filter.py:130
    download,               \* the download button of filter.py:166 is shown
    progress,               \* the progress bar (filter.py:65,69,78,90,113,136)
    original_df,            \* check.py: the original sheet (check.py:57)
    cleaned_file,           \* check.py: the cleaned workbook
    selected_sheets,        \* check.py:59-65
    cleaned_code_set,       \* check.py:68
    results,                \* check.py:71
    cpc                     \* check.py: the position of the script

pvars == <<uploaded_file, pc, df, correct_data, incorrect_data, split_result,
           merged_result, tara_silom_data, duplicate_wrong_data,
           correct_no_duplicates, workbook, highlighted, download,
           progress>>
cvars == <<original_df, cleaned_file, selected_sheets, cleaned_code_set,
           results, cpc>>
vars == <<pvars, cvars>>

----------------------------------------------------------------------------
(* Bounds of the model. *)

\* the rows of an input sheet
MaxRows == 2
\* the characters of an input sheet, all rows together: those of its asset
\* codes, and one for each central authority that is not the target
MaxChars == 3

----------------------------------------------------------------------------
(* Python's text primitives. *)

Digit == {"0", "1", "2", "3", "4", "5", "6", "7", "8", "9"}

\* the characters str.strip() removes
Whitespace == {" ", "\t", "\n", "\r", "\f"}

\* str.isdigit(): non-empty and every character a digit
isdigit(s) == s # <<>> /\ \A i \in 1..Len(s) : s[i] \in Digit

RECURSIVE lstrip(_)
lstrip(s) == IF s # <<>> /\ Head(s) \in Whitespace THEN lstrip(Tail(s)) ELSE s

RECURSIVE rstrip(_)
rstrip(s) ==
    IF s # <<>> /\ s[Len(s)] \in Whitespace
    THEN rstrip(SubSeq(s, 1, Len(s) - 1)) ELSE s

\* str.strip()
strip(s) == rstrip(lstrip(s))

DigitValue(c) ==
    CHOOSE n \in 0..9 :
        <<"0", "1", "2", "3", "4", "5", "6", "7", "8", "9">>[n + 1] = c

\* int() of a string of digits
RECURSIVE int(_)
int(s) ==
    IF s = <<>> THEN 0
    ELSE 10 * int(SubSeq(s, 1, Len(s) - 1)) + DigitValue(s[Len(s)])

\* term in s
contains(term, s) ==
    \E i \in 1..(Len(s) + 1) :
        /\ i + Len(term) - 1 <= Len(s)
        /\ SubSeq(s, i, i + Len(term) - 1) = term

\* re.sub(r'\D', '', s)
re_sub_nondigit(s) == SelectSeq(s, LAMBDA c : c \in Digit)

\* the first position from i on that holds no delimiter
RECURSIVE skip_run(_, _, _)
skip_run(delims, s, i) ==
    IF i <= Len(s) /\ s[i] \in delims THEN skip_run(delims, s, i + 1) ELSE i

\* re.split(r'[<delims>]+', s): the pieces between the runs of delimiters,
\* an empty piece before a leading run and after a trailing one
RECURSIVE re_split_from(_, _, _, _)
re_split_from(delims, s, i, cur) ==
    IF i > Len(s) THEN <<cur>>
    ELSE IF s[i] \in delims
         THEN <<cur>> \o re_split_from(delims, s, skip_run(delims, s, i), <<>>)
         ELSE re_split_from(delims, s, i + 1, Append(cur, s[i]))

re_split(delims, s) == re_split_from(delims, s, 1, <<>>)

RECURSIVE map_strip(_)
map_strip(pieces) ==
    IF pieces = <<>> THEN <<>>
    ELSE <<strip(Head(pieces))>> \o map_strip(Tail(pieces))

\* filter(None, map(str.strip, pieces))
nonempty_stripped(pieces) == SelectSeq(map_strip(pieces), LAMBDA t : t # <<>>)

----------------------------------------------------------------------------
(* Cells. *)

StrCell(s) == [kind |-> "str", text |-> s]
NumCell(s) == [kind |-> "num", text |-> s]
NaN == [kind |-> "nan", text |-> <<"n", "a", "n">>]

\* pd.isna(v)
isna(v) == v.kind = "nan"
\* isinstance(v, str)
isstr(v) == v.kind = "str"
\* str(v)
str(v) == v.text

----------------------------------------------------------------------------
(* filter.py: constants. *)

INCORRECT_TERMS == {
    <<"U+0E23", "U+0E2B", "U+0E31", "U+0E2A", "U+0E17", "U+0E23", "U+0E31",
      "U+0E1E", "U+0E22", "U+0E4C", "U+0E2A", "U+0E34", "U+0E19">>,
    <<"U+0E44", "U+0E21", "U+0E48", "U+0E21", "U+0E35">>,
    <<"C", "o", "m", "p", "u", "t", "e", "r">>,
    <<"N", "o", "t", "e", "b", "o", "o", "k">>,
    <<"U+0E44", "U+0E21", "U+0E48", "U+0E21", "U+0E35", "U+0E23", "U+0E2B",
      "U+0E31", "U+0E2A", "U+0E17", "U+0E23", "U+0E31", "U+0E1E", "U+0E22",
      "U+0E4C", "U+0E2A", "U+0E34", "U+0E19">>,
    <<"U+0E41", "U+0E17", "U+0E1A", "U+0E40", "U+0E25", "U+0E47", "U+0E15">>,
    <<"U+0E23", "U+0E32", "U+0E22", "U+0E25", "U+0E30", "U+0E40", "U+0E2D",
      "U+0E35", "U+0E22", "U+0E14">>,
    <<"n", "a", "n">>,
    <<"-">>,
    <<"U+0E4C", "N", "o", "t", "e", "b", "o", "o", "k">>,
    <<"U+0E17", "U+0E1A", ".", " ", "5", "5", "8", "9", "3", "3", "8">>,
    <<"U+0E17", "U+0E1A", ".", " ", "5", "5", "8", "9", "3", "3", "9", " ",
      "(", "U+0E23", "U+0E39", "U+0E1B", "U+0E40", "U+0E04", "U+0E23",
      "U+0E37", "U+0E48", "U+0E2D", "U+0E07", ")">> }

\* the value the central-authority column is compared with (filter.py:99)
FILTER_VALUE ==
    <<"U+0E2D", "U+0E20", "U+0E34", "U+0E2A", "U+0E23", "U+0E32", " ",
      "U+0E2A", "U+0E35", "U+0E14", "U+0E32", "U+0E04", "U+0E38", "U+0E13">>

\* the delimiter class of filter.py:83, r'[ ,]+'
SPLIT_DELIMS == {" ", ","}

----------------------------------------------------------------------------
(* filter.py: the classifier and the normalizer. *)

\* is_invalid_asset with the digit tests made on the trimmed value
is_invalid_asset_trimmed(v) ==
    IF isna(v) \/ ~isstr(v) \/ strip(v.text) = <<>> THEN TRUE
    ELSE IF isdigit(strip(v.text)) /\ int(strip(v.text)) = 0 THEN TRUE
    ELSE IF ~isdigit(strip(v.text)) THEN TRUE
    ELSE IF \E term \in INCORRECT_TERMS : contains(term, v.text) THEN TRUE
    ELSE FALSE

is_invalid_asset(v) ==
    IF isna(v) \/ ~isstr(v) \/ strip(v.text) = <<>> THEN TRUE
    ELSE IF isdigit(v.text) /\ int(v.text) = 0 THEN TRUE
    ELSE IF ~isdigit(v.text) THEN TRUE
    ELSE IF \E term \in INCORRECT_TERMS : contains(term, v.text) THEN TRUE
    ELSE FALSE

cleanse_asset_code(v) ==
    IF isstr(v) THEN StrCell(re_sub_nondigit(v.text)) ELSE v

----------------------------------------------------------------------------
(* filter.py: the input sheets of the model. *)

\* the header of the asset-code column (filter.py:10); a header is named, not
\* spelled
ASSET_COLUMN == "ASSET_COLUMN"

\* the header of the central-authority column (filter.py:11)
CENTRAL_ASSET_COLUMN == "CENTRAL_ASSET_COLUMN"

\* the characters input cells are written with: two digits, a delimiter of
\* filter.py:83 that is also whitespace, a delimiter of check.py:34 only, and a
\* character that is neither and is a block-list term
Alphabet == {"0", "1", " ", "/", "-"}

\* a central-authority value that differs from FILTER_VALUE by a trailing space
OTHER_VALUE == Append(FILTER_VALUE, " ")

Authorities == {FILTER_VALUE, OTHER_VALUE}

RECURSIVE Texts(_, _)
Texts(alphabet, l) ==
    IF l = 0 THEN {<<>>}
    ELSE {Append(s, c) : s \in Texts(alphabet, l - 1), c \in alphabet}

\* the decimal renderings of l digits of a number
NumTexts(l) ==
    {s \in Texts({"0", "1"}, l) : l >= 1 /\ (l = 1 \/ s[1] # "0")}

\* the cells that take l characters to write (an empty cell takes none)
CellsOfCost(l) ==
    {StrCell(s) : s \in Texts(Alphabet, l)}
        \cup {NumCell(s) : s \in NumTexts(l)}
        \cup (IF l = 0 THEN {NaN} ELSE {})

\* the characters a cell takes to write
cost(cell) == IF isna(cell) THEN 0 ELSE Len(cell.text)

\* the characters a central-authority value takes beyond those of FILTER_VALUE
authority_cost(a) == Len(a) - Len(FILTER_VALUE)

\* the characters of a sheet that MaxChars bounds
RECURSIVE total_cost(_)
total_cost(rows) ==
    IF rows = <<>> THEN 0
    ELSE cost(Head(rows).asset) + authority_cost(Head(rows).central)
            + total_cost(Tail(rows))

\* the sheet of the end-to-end scenario: "111", "0000", "222, 333", the
\* central-authority value matching on the first row only
ScenarioRows ==
    << [asset |-> StrCell(<<"1", "1", "1">>), central |-> FILTER_VALUE],
       [asset |-> StrCell(<<"0", "0", "0", "0">>), central |-> OTHER_VALUE],
       [asset |-> StrCell(<<"2", "2", "2", ",", " ", "3", "3", "3">>),
        central |-> OTHER_VALUE] >>

BothColumns == {ASSET_COLUMN, CENTRAL_ASSET_COLUMN}

\* a workbook with no data rows
EmptyWorkbook(readable, cols) ==
    [readable |-> readable, columns |-> cols, rows |-> <<>>]

----------------------------------------------------------------------------
(* filter.py: the stages of process_excel. *)

\* pd.read_excel: the data rows under a RangeIndex 0, 1, ...
read_excel(file) ==
    [i \in 1..Len(file.rows) |->
        [index |-> i - 1, asset |-> file.rows[i].asset,
         central |-> file.rows[i].central]]

\* df[~incorrect_mask] with the asset codes cleansed (filter.py:73,77)
select_correct(d) ==
    LET kept == SelectSeq(d, LAMBDA row : ~is_invalid_asset(row.asset))
    IN  [i \in 1..Len(kept) |->
            [kept[i] EXCEPT !.asset = cleanse_asset_code(kept[i].asset)]]

\* df[incorrect_mask] (filter.py:74)
select_incorrect(d) == SelectSeq(d, LAMBDA row : is_invalid_asset(row.asset))

\* the rows one incorrect row is split into (filter.py:83-87)
split_row(row) ==
    LET assets == nonempty_stripped(re_split(SPLIT_DELIMS, str(row.asset)))
    IN  [i \in 1..Len(assets) |-> [row EXCEPT !.asset = StrCell(assets[i])]]

\* filter.py:81-89
RECURSIVE split_rows(_)
split_rows(incorrect) ==
    IF incorrect = <<>> THEN <<>>
    ELSE split_row(Head(incorrect)) \o split_rows(Tail(incorrect))

\* Series.duplicated() with its default keep='first': an earlier row holds the
\* same value
duplicated_keep_first(rows, i) ==
    \E j \in 1..Len(rows) : j < i /\ rows[j].asset = rows[i].asset

\* Series.duplicated(keep=False): another row holds the same value
duplicated(rows, i) ==
    \E j \in 1..Len(rows) : j # i /\ rows[j].asset = rows[i].asset

\* pd.concat(..., ignore_index=True) and the Duplicate column (filter.py:93-96)
merge_and_flag(correct, split) ==
    LET rows == correct \o split
    IN  [i \in 1..Len(rows) |->
            [index |-> i - 1, asset |-> rows[i].asset,
             central |-> rows[i].central,
             Duplicate |-> IF duplicated(rows, i) THEN "Yes" ELSE "No"]]

\* filter.py:99
select_tara_silom(correct) ==
    SelectSeq(correct, LAMBDA row : row.central = FILTER_VALUE)

\* filter.py:102-104
select_duplicate_wrong(merged) ==
    SelectSeq(merged,
              LAMBDA row : row.Duplicate = "Yes" \/ is_invalid_asset(row.asset))

\* the Correct Data view with the duplicates left in
select_all_merged(merged) == merged

\* filter.py:107
select_no_duplicates(merged) ==
    SelectSeq(merged, LAMBDA row : row.Duplicate = "No")

\* the sheets written at filter.py:117-124, each with the header of its frame
write_sheets(correct_nd, tara, dup_wrong) ==
    [sheet \in {"Correct Data", "Tara-Silom", "Duplicate & Wrong Data"} |->
        [header |-> IF sheet = "Tara-Silom" THEN BothColumns
                    ELSE BothColumns \cup {"Duplicate"},
         rows |-> CASE sheet = "Correct Data" -> correct_nd
                    [] sheet = "Tara-Silom" -> tara
                    [] OTHER -> dup_wrong]]

\* the sheet rows (the header is row 1) highlight_duplicates fills
highlight_duplicates(wb, sheet_name, column_name) ==
    LET ws == wb[sheet_name]
        max_row == Len(ws.rows) + 1
        value(r) == ws.rows[r - 1].asset
        count(val) == Cardinality({r \in 2..max_row : value(r) = val})
        duplicate_values == {value(r) : r \in {q \in 2..max_row : count(value(q)) > 1}}
    IN  IF column_name \notin ws.header THEN {}
        ELSE {r \in 2..max_row : value(r) \in duplicate_values}

----------------------------------------------------------------------------
(* filter.py: the script, one action per stage. *)

NoWorkbook == [sheet \in {} |-> <<>>]

at(stage) == pc = stage

goto(stage) == pc' = stage

\* the operator's workbook gets one more row: at most MaxRows rows, at most
\* MaxChars characters in all
PrepareRow ==
    /\ at("prepare")
    /\ Len(uploaded_file.rows) < MaxRows
    /\ \E a \in Authorities :
        \E l \in 0..(MaxChars - total_cost(uploaded_file.rows)) :
            \E c \in CellsOfCost(l) :
                /\ l + authority_cost(a)
                        <= MaxChars - total_cost(uploaded_file.rows)
                /\ uploaded_file' =
                    [uploaded_file EXCEPT
                        !.rows = Append(@, [asset |-> c, central |-> a])]
    /\ UNCHANGED <<cvars, progress, pc, df, correct_data, incorrect_data,
                   split_result, merged_result, tara_silom_data,
                   duplicate_wrong_data, correct_no_duplicates, workbook,
                   highlighted, download>>

\* the operator's workbook is the sheet of the end-to-end scenario
PrepareScenario ==
    /\ at("prepare")
    /\ uploaded_file.rows = <<>>
    /\ uploaded_file' = [uploaded_file EXCEPT !.rows = ScenarioRows]
    /\ UNCHANGED <<cvars, progress, pc, df, correct_data, incorrect_data,
                   split_result, merged_result, tara_silom_data,
                   duplicate_wrong_data, correct_no_duplicates, workbook,
                   highlighted, download>>

\* filter.py:145: the workbook is uploaded; an empty one may also be
\* unreadable or lack a column
Upload ==
    /\ at("prepare")
    /\ \/ UNCHANGED uploaded_file
       \/ /\ uploaded_file.rows = <<>>
          /\ \E readable \in BOOLEAN, cols \in SUBSET BothColumns :
                /\ ~(readable /\ cols = BothColumns)
                /\ uploaded_file' = EmptyWorkbook(readable, cols)
    /\ goto("sheets")
    /\ UNCHANGED <<cvars, progress, df, correct_data, incorrect_data,
                   split_result, merged_result, tara_silom_data,
                   duplicate_wrong_data, correct_no_duplicates, workbook,
                   highlighted, download>>

\* filter.py:147-160: the sheet names are read; a failure is reported and the
\* script ends with nothing selected
ListSheets ==
    /\ at("sheets")
    /\ \/ ~uploaded_file.readable /\ goto("stopped")
       \/ uploaded_file.readable /\ goto("read")
    /\ UNCHANGED <<cvars, progress, uploaded_file, df, correct_data, incorrect_data,
                   split_result, merged_result, tara_silom_data,
                   duplicate_wrong_data, correct_no_duplicates, workbook,
                   highlighted, download>>

\* filter.py:68
ReadExcel ==
    /\ at("read")
    /\ df' = read_excel(uploaded_file)
    /\ progress' = 20
    /\ goto("classify")
    /\ UNCHANGED <<cvars, uploaded_file, correct_data, incorrect_data, split_result,
                   merged_result, tara_silom_data, duplicate_wrong_data,
                   correct_no_duplicates, workbook, highlighted, download>>

\* filter.py:72-77: df[ASSET_COLUMN] raises KeyError when the column is absent
Classify ==
    /\ at("classify")
    /\ \/ /\ ASSET_COLUMN \notin uploaded_file.columns
          /\ goto("failed")
          /\ UNCHANGED <<correct_data, incorrect_data, progress>>
       \/ /\ ASSET_COLUMN \in uploaded_file.columns
          /\ correct_data' = select_correct(df)
          /\ incorrect_data' = select_incorrect(df)
          /\ progress' = 50
          /\ goto("split")
    /\ UNCHANGED <<cvars, uploaded_file, df, split_result, merged_result,
                   tara_silom_data, duplicate_wrong_data,
                   correct_no_duplicates, workbook, highlighted, download>>

\* filter.py:80-89
SplitIncorrect ==
    /\ at("split")
    /\ split_result' = split_rows(incorrect_data)
    /\ progress' = 70
    /\ goto("merge")
    /\ UNCHANGED <<cvars, uploaded_file, df, correct_data, incorrect_data,
                   merged_result, tara_silom_data, duplicate_wrong_data,
                   correct_no_duplicates, workbook, highlighted, download>>

\* filter.py:92-96
MergeAndFlag ==
    /\ at("merge")
    /\ merged_result' = merge_and_flag(correct_data, split_result)
    /\ goto("views")
    /\ UNCHANGED <<cvars, progress, uploaded_file, df, correct_data, incorrect_data,
                   split_result, tara_silom_data, duplicate_wrong_data,
                   correct_no_duplicates, workbook, highlighted, download>>

\* filter.py:98-107: correct_data[CENTRAL_ASSET_COLUMN] raises KeyError when
\* the column is absent
DeriveViews ==
    /\ at("views")
    /\ \/ /\ CENTRAL_ASSET_COLUMN \notin uploaded_file.columns
          /\ goto("failed")
          /\ UNCHANGED <<tara_silom_data, duplicate_wrong_data,
                         correct_no_duplicates>>
       \/ /\ CENTRAL_ASSET_COLUMN \in uploaded_file.columns
          /\ tara_silom_data' = select_tara_silom(correct_data)
          /\ duplicate_wrong_data' = select_duplicate_wrong(merged_result)
          /\ correct_no_duplicates' = select_no_duplicates(merged_result)
          /\ goto("encode")
    /\ UNCHANGED <<cvars, progress, uploaded_file, df, correct_data, incorrect_data,
                   split_result, merged_result, workbook, highlighted,
                   download>>

\* filter.py:109-113: encoding and decoding UTF-8 leaves text as it is.  The
\* .str accessor raises AttributeError on a column of dtype object that holds
\* no text; a sheet with a cell that is not text may or may not end there
EnsureEncoding ==
    /\ at("encode")
    /\ \/ progress' = 90 /\ goto("write")
       \/ /\ \E i \in 1..Len(df) : ~isstr(df[i].asset)
          /\ goto("failed")
          /\ UNCHANGED progress
    /\ UNCHANGED <<cvars, uploaded_file, df, correct_data, incorrect_data,
                   split_result, merged_result, tara_silom_data,
                   duplicate_wrong_data, correct_no_duplicates, workbook,
                   highlighted, download>>

\* filter.py:115-126
WriteSheets ==
    /\ at("write")
    /\ workbook' = write_sheets(correct_no_duplicates, tara_silom_data,
                                duplicate_wrong_data)
    /\ goto("highlight")
    /\ UNCHANGED <<cvars, progress, uploaded_file, df, correct_data, incorrect_data,
                   split_result, merged_result, tara_silom_data,
                   duplicate_wrong_data, correct_no_duplicates, highlighted,
                   download>>

\* filter.py:128-140
Highlight ==
    /\ at("highlight")
    /\ highlighted' = highlight_duplicates(workbook, "Correct Data", ASSET_COLUMN)
    /\ progress' = 100
    /\ goto("offer")
    /\ UNCHANGED <<cvars, uploaded_file, df, correct_data, incorrect_data,
                   split_result, merged_result, tara_silom_data,
                   duplicate_wrong_data, correct_no_duplicates, workbook,
                   download>>

\* the download offered after a failed run as well
OfferDownloadAfterFailure ==
    /\ pc \in {"offer", "failed"}
    /\ download' = TRUE
    /\ goto("done")
    /\ UNCHANGED <<cvars, progress, uploaded_file, df, correct_data,
                   incorrect_data, split_result, merged_result,
                   tara_silom_data, duplicate_wrong_data,
                   correct_no_duplicates, workbook, highlighted>>

\* filter.py:164-171: process_excel has returned; the download is offered
OfferDownload ==
    /\ at("offer")
    /\ download' = TRUE
    /\ goto("done")
    /\ UNCHANGED <<cvars, progress, uploaded_file, df, correct_data, incorrect_data,
                   split_result, merged_result, tara_silom_data,
                   duplicate_wrong_data, correct_no_duplicates, workbook,
                   highlighted>>

\* the comparator is not running
CheckIdle ==
    /\ original_df = <<>>
    /\ cleaned_file = <<>>
    /\ selected_sheets = {}
    /\ cleaned_code_set = {}
    /\ results = <<>>
    /\ cpc = "off"

Init ==
    /\ uploaded_file = EmptyWorkbook(TRUE, BothColumns)
    /\ pc = "prepare"
    /\ df = <<>>
    /\ correct_data = <<>>
    /\ incorrect_data = <<>>
    /\ split_result = <<>>
    /\ merged_result = <<>>
    /\ tara_silom_data = <<>>
    /\ duplicate_wrong_data = <<>>
    /\ correct_no_duplicates = <<>>
    /\ workbook = NoWorkbook
    /\ highlighted = {}
    /\ download = FALSE
    /\ progress = 0
    /\ CheckIdle

Next ==
    \/ PrepareRow
    \/ PrepareScenario
    \/ Upload
    \/ ListSheets
    \/ ReadExcel
    \/ Classify
    \/ SplitIncorrect
    \/ MergeAndFlag
    \/ DeriveViews
    \/ EnsureEncoding
    \/ WriteSheets
    \/ Highlight
    \/ OfferDownload

Spec == Init /\ [][Next]_vars

----------------------------------------------------------------------------
(* check.py: the comparator. *)

\* the delimiter class of check.py:34, r'[ ,/\\*]+'
CHECK_DELIMS == {" ", ",", "/", "\\", "*"}

\* what cleanse returns: None, or an integer
NoneValue == [none |-> TRUE, int |-> 0]
IntValue(n) == [none |-> FALSE, int |-> n]

\* cleanse that converts without deleting the non-digits first
cleanse_digits_only(asset) ==
    IF isna(asset) THEN NoneValue
    ELSE IF isdigit(str(asset)) THEN IntValue(int(str(asset))) ELSE NoneValue

\* check.py:9-13
cleanse(asset) ==
    IF isna(asset) THEN NoneValue
    ELSE LET digits == re_sub_nondigit(str(asset))
         IN  IF isdigit(digits) THEN IntValue(int(digits)) ELSE NoneValue

\* the selection of check.py:59-65: None, or a list of sheet names
AllSheets == [given |-> FALSE, names |-> {}]
Selected(names) == [given |-> TRUE, names |-> names]

\* the truth value of relevant_sheets: None and the empty list are false
truthy(relevant_sheets) == relevant_sheets.given /\ relevant_sheets.names # {}

\* check.py:16-27
extract_cleaned_codes_from_all_sheets(file, relevant_sheets) ==
    UNION {
        IF truthy(relevant_sheets) /\ sheet_name \notin relevant_sheets.names
        THEN {}
        ELSE IF ASSET_COLUMN \in file[sheet_name].columns
             THEN LET column == file[sheet_name].cells
                      kept == {i \in 1..Len(column) :
                                  /\ ~isna(column[i])
                                  /\ ~cleanse(column[i]).none}
                  IN  {cleanse(column[i]).int : i \in kept}
             ELSE {} : sheet_name \in DOMAIN file}

\* the result rows of one original row (check.py:33-43)
compare_row(raw_cell, cleaned_set) ==
    LET raw == str(raw_cell)
        assets == nonempty_stripped(re_split(CHECK_DELIMS, raw))
    IN  [i \in 1..Len(assets) |->
            LET cleaned == cleanse(StrCell(assets[i]))
            IN  [OriginalEntry |-> raw,
                 ExtractedAsset |-> assets[i],
                 CleanedAsset |-> cleaned,
                 MatchStatus |-> IF ~cleaned.none /\ cleaned.int \in cleaned_set
                                 THEN "Found" ELSE "Missing"]]

\* check.py:30-44
RECURSIVE process_comparison(_, _)
process_comparison(original, cleaned_set) ==
    IF original = <<>> THEN <<>>
    ELSE compare_row(Head(original), cleaned_set)
            \o process_comparison(Tail(original), cleaned_set)

\* the characters the comparator's original cells are written with: two
\* digits, a delimiter, whitespace that is no delimiter, and a non-digit
CheckAlphabet == {"0", "1", "/", "\t", "-"}

OriginalCellsOfCost(l) ==
    {StrCell(s) : s \in Texts(CheckAlphabet, l)}
        \cup {NumCell(s) : s \in NumTexts(l)}
        \cup (IF l = 0 THEN {NaN} ELSE {})

RECURSIVE cells_cost(_)
cells_cost(cells) ==
    IF cells = <<>> THEN 0 ELSE cost(Head(cells)) + cells_cost(Tail(cells))

\* a sheet of a cleaned workbook
Sheet(cols, cells) == [columns |-> cols, cells |-> cells]

\* the Correct Data sheets of the cleaned workbooks: no asset column; a code;
\* a numeric cell, a code with leading and trailing zeros, a cell without
\* digits, an empty cell and a code among other characters
CorrectDataSheets ==
    { Sheet({}, <<StrCell(<<"1">>)>>),
      Sheet({ASSET_COLUMN}, <<StrCell(<<"1">>)>>),
      Sheet({ASSET_COLUMN},
            <<NumCell(<<"0">>), StrCell(<<"0", "1", "0">>), StrCell(<<"-">>),
              NaN, StrCell(<<"1", "-", "1">>)>>) }

\* the Duplicate & Wrong Data sheets of the cleaned workbooks
WrongDataSheets ==
    { Sheet({ASSET_COLUMN}, <<StrCell(<<"0", "0", "1">>), StrCell(<<"1", "1">>)>>) }

CleanedWorkbooks ==
    {[sheet_name \in {"Correct Data", "Duplicate & Wrong Data"} |->
        IF sheet_name = "Correct Data" THEN c ELSE w] :
        c \in CorrectDataSheets, w \in WrongDataSheets}

\* every sheet, no sheet ticked, the default selection
Selections == {AllSheets, Selected({}), Selected({"Correct Data"})}

NoCleanedFile == [sheet_name \in {} |-> Sheet({}, <<>>)]

cat(stage) == cpc = stage

\* the original sheet gets one more asset-code cell
PrepareOriginalRow ==
    /\ cat("prepare")
    /\ Len(original_df) < MaxRows
    /\ \E l \in 0..(MaxChars - cells_cost(original_df)) :
        \E c \in OriginalCellsOfCost(l) :
            original_df' = Append(original_df, c)
    /\ UNCHANGED <<pvars, cleaned_file, selected_sheets, cleaned_code_set,
                   results, cpc>>

\* check.py:51-65: both files are uploaded and the sheets are selected
UploadFiles ==
    /\ cat("prepare")
    /\ cleaned_file' \in CleanedWorkbooks
    /\ selected_sheets' \in Selections
    /\ cpc' = "extract"
    /\ UNCHANGED <<pvars, original_df, cleaned_code_set, results>>

\* check.py:68
ExtractCodes ==
    /\ cat("extract")
    /\ cleaned_code_set' =
        extract_cleaned_codes_from_all_sheets(cleaned_file, selected_sheets)
    /\ cpc' = "compare"
    /\ UNCHANGED <<pvars, original_df, cleaned_file, selected_sheets, results>>

\* check.py:71
Compare ==
    /\ cat("compare")
    /\ results' = process_comparison(original_df, cleaned_code_set)
    /\ cpc' = "report"
    /\ UNCHANGED <<pvars, original_df, cleaned_file, selected_sheets,
                   cleaned_code_set>>

\* the cleaner is not running
FilterIdle ==
    /\ uploaded_file = EmptyWorkbook(TRUE, BothColumns)
    /\ pc = "off"
    /\ df = <<>>
    /\ correct_data = <<>>
    /\ incorrect_data = <<>>
    /\ split_result = <<>>
    /\ merged_result = <<>>
    /\ tara_silom_data = <<>>
    /\ duplicate_wrong_data = <<>>
    /\ correct_no_duplicates = <<>>
    /\ workbook = NoWorkbook
    /\ highlighted = {}
    /\ download = FALSE
    /\ progress = 0

CheckInit ==
    /\ FilterIdle
    /\ original_df = <<>>
    /\ cleaned_file = NoCleanedFile
    /\ selected_sheets = AllSheets
    /\ cleaned_code_set = {}
    /\ results = <<>>
    /\ cpc = "prepare"

CheckNext ==
    \/ PrepareOriginalRow
    \/ UploadFiles
    \/ ExtractCodes
    \/ Compare

SpecCheck == CheckInit /\ [][CheckNext]_vars

----------------------------------------------------------------------------
(* filter.py: what the claims speak of. *)

AfterClassify ==
    pc \in {"split", "merge", "views", "encode", "write", "highlight",
            "offer", "done"}
AfterSplit ==
    pc \in {"merge", "views", "encode", "write", "highlight", "offer", "done"}
AfterMerge == pc \in {"views", "encode", "write", "highlight", "offer", "done"}
AfterViews == pc \in {"encode", "write", "highlight", "offer", "done"}
AfterWrite == pc \in {"highlight", "offer", "done"}

all_zero(s) == \A i \in 1..Len(s) : s[i] = "0"
all_digits(s) == \A i \in 1..Len(s) : s[i] \in Digit
blocklisted(s) == \E term \in INCORRECT_TERMS : contains(term, s)

\* row i of the sheet was put with the incorrect rows, with the correct rows
classified_invalid(i) ==
    \E j \in 1..Len(incorrect_data) : incorrect_data[j].index = df[i].index
classified_valid(i) ==
    \E j \in 1..Len(correct_data) : correct_data[j].index = df[i].index

\* Invalid as the claim has it: the digit tests made on the trimmed value
claimed_invalid(v) ==
    \/ isna(v)
    \/ ~isstr(v)
    \/ strip(v.text) = <<>>
    \/ all_digits(strip(v.text)) /\ all_zero(strip(v.text))
    \/ ~all_digits(strip(v.text))
    \/ blocklisted(v.text)

\* Invalid with the digit tests made on the raw value
raw_invalid(v) ==
    \/ isna(v)
    \/ ~isstr(v)
    \/ strip(v.text) = <<>>
    \/ all_digits(v.text) /\ all_zero(v.text)
    \/ ~all_digits(v.text)
    \/ blocklisted(v.text)

CLAIMED_DELIMS == {" ", ",", "/", "\\", "*"}

\* the rows the claim has one Invalid row split into
claimed_split_row(row) ==
    LET tokens == nonempty_stripped(re_split(CLAIMED_DELIMS, str(row.asset)))
        normalized == [i \in 1..Len(tokens) |-> re_sub_nondigit(tokens[i])]
        kept == SelectSeq(normalized, LAMBDA t : t # <<>>)
    IN  [i \in 1..Len(kept) |-> [row EXCEPT !.asset = StrCell(kept[i])]]

RECURSIVE claimed_split_rows(_)
claimed_split_rows(incorrect) ==
    IF incorrect = <<>> THEN <<>>
    ELSE claimed_split_row(Head(incorrect)) \o claimed_split_rows(Tail(incorrect))

\* C2: the rows split off the Invalid rows are, in row order then token order,
\* one copy of the source row per token of the cell split on runs of space,
\* comma, slash, backslash and asterisk, the asset code replaced by the digits
\* of the token, tokens without digits emitting nothing.
C2_SplitNormalizes ==
    AfterSplit => split_result = claimed_split_rows(incorrect_data)

\* C3: a row of the merged dataset (valid rows, then split rows) is marked
\* Duplicate = Yes exactly when another row holds the same asset code, the
\* first occurrence included, and No otherwise.
C3_DuplicateIffShared ==
    AfterMerge =>
        /\ Len(merged_result) = Len(correct_data) + Len(split_result)
        /\ \A k \in 1..Len(merged_result) :
            LET same == {m \in 1..Len(merged_result) :
                            merged_result[m].asset.text = merged_result[k].asset.text}
                source == (correct_data \o split_result)[k]
            IN  /\ merged_result[k].asset = source.asset
                /\ merged_result[k].Duplicate \in {"Yes", "No"}
                /\ merged_result[k].Duplicate = "Yes" <=> Cardinality(same) >= 2

\* C3 witness: a merged dataset with a group of two equal codes whose first
\* member is marked Yes, and a row marked No
C3_Witness ==
    /\ AfterMerge
    /\ \E k, m \in 1..Len(merged_result) :
        /\ k < m
        /\ merged_result[k].asset.text = merged_result[m].asset.text
        /\ merged_result[k].Duplicate = "Yes"
    /\ \E k \in 1..Len(merged_result) : merged_result[k].Duplicate = "No"

\* the merged row of index k is in a view
in_view(view, k) == \E j \in 1..Len(view) : view[j].index = k

\* the index, in the sheet, of the row the k-th merged row comes from
source_index(k) == (correct_data \o split_result)[k].index

\* C4: every merged row is in exactly one of the Correct Data and Duplicate &
\* Wrong Data views, and an input row has no row in either view only when it
\* is an invalid row whose split yields no token.
C4_ExactlyOneView ==
    AfterViews =>
        /\ \A k \in 1..Len(merged_result) :
            in_view(correct_no_duplicates, merged_result[k].index)
                <=> ~in_view(duplicate_wrong_data, merged_result[k].index)
        /\ \A i \in 1..Len(df) :
            \/ \E k \in 1..Len(merged_result) : source_index(k) = df[i].index
            \/ is_invalid_asset(df[i].asset) /\ split_row(df[i]) = <<>>

\* the asset codes of a sequence of rows
codes(rows) == {rows[j].asset.text : j \in 1..Len(rows)}

canonical(s) == s = <<>> \/ all_digits(s)

\* C5: every row of the merged dataset, and so of every sheet written, has an
\* asset code that is empty or all digits.
C5_CodesCanonical ==
    /\ AfterMerge => \A s \in codes(merged_result) : canonical(s)
    /\ AfterWrite =>
        \A sheet \in DOMAIN workbook :
            \A s \in codes(workbook[sheet].rows) : canonical(s)

\* C6: the sheet "111", "0000", "222, 333" with the authority matching on the
\* first row only gives a Correct Data sheet with the codes 111, 222, 333, a
\* Duplicate & Wrong Data sheet holding the 0000 row, and a Tara-Silom sheet
\* holding exactly the row of code 111.
C6_Scenario ==
    (pc = "done" /\ uploaded_file.rows = ScenarioRows) =>
        /\ codes(workbook["Correct Data"].rows) =
            {<<"1", "1", "1">>, <<"2", "2", "2">>, <<"3", "3", "3">>}
        /\ <<"0", "0", "0", "0">> \in codes(workbook["Duplicate & Wrong Data"].rows)
        /\ Len(workbook["Tara-Silom"].rows) = 1
        /\ codes(workbook["Tara-Silom"].rows) = {<<"1", "1", "1">>}

\* what a view shows of a row: its asset code and its central authority
shown(rows) ==
    [j \in 1..Len(rows) |-> <<rows[j].asset, rows[j].central>>]

\* C7 as stated: the Tara-Silom view is the rows of the merged dataset, split
\* rows included, whose central authority equals the target value.
C7_FilterOverMerged ==
    AfterViews =>
        shown(tara_silom_data) =
            shown(SelectSeq(merged_result,
                            LAMBDA row : row.central = FILTER_VALUE))

\* C8: the download is offered only once every stage of process_excel has
\* completed (the progress bar is full and the three sheets are written), and
\* a run that stopped or failed offers nothing.
C8_DownloadOnlyAfterPipeline ==
    /\ download =>
        /\ pc = "done"
        /\ progress = 100
        /\ df = read_excel(uploaded_file)
        /\ DOMAIN workbook = {"Correct Data", "Tara-Silom", "Duplicate & Wrong Data"}
        /\ workbook["Correct Data"].rows = correct_no_duplicates
        /\ workbook["Tara-Silom"].rows = tara_silom_data
        /\ workbook["Duplicate & Wrong Data"].rows = duplicate_wrong_data
    /\ pc \in {"stopped", "failed"} => ~download

\* C8 witness: a failed run that had got past the split, with no download
C8_Witness == pc = "failed" /\ progress = 70 /\ ~download

\* C9: the asset codes of the Correct Data sheet are pairwise distinct, and
\* highlight_duplicates fills no cell of it.
C9_CorrectDataDistinct ==
    /\ AfterWrite =>
        \A j, m \in 1..Len(workbook["Correct Data"].rows) :
            j # m => workbook["Correct Data"].rows[j].asset
                        # workbook["Correct Data"].rows[m].asset
    /\ pc \in {"offer", "done"} => highlighted = {}

\* C9 witness: a highlighted workbook whose merged dataset had duplicates and
\* whose Correct Data sheet has two rows
C9_Witness ==
    /\ pc \in {"offer", "done"}
    /\ \E k \in 1..Len(merged_result) : merged_result[k].Duplicate = "Yes"
    /\ Len(workbook["Correct Data"].rows) >= 1
    /\ highlighted = {}

----------------------------------------------------------------------------
(* check.py: what the claim speaks of. *)

\* the positions where a maximal run of non-delimiters starts
token_starts(s) ==
    {i \in 1..Len(s) :
        s[i] \notin CHECK_DELIMS /\ (i = 1 \/ s[i - 1] \in CHECK_DELIMS)}

\* the last position of the run that starts at i
token_end(s, i) ==
    CHOOSE j \in i..Len(s) :
        /\ \A m \in i..j : s[m] \notin CHECK_DELIMS
        /\ j = Len(s) \/ s[j + 1] \in CHECK_DELIMS

\* the members of a set of numbers, ascending
RECURSIVE ascending(_)
ascending(S) ==
    IF S = {} THEN <<>>
    ELSE LET least == CHOOSE x \in S : \A y \in S : x <= y
         IN  <<least>> \o ascending(S \ {least})

\* the text between the first and the last character that is no whitespace
trimmed(s) ==
    LET inked == {i \in 1..Len(s) : s[i] \notin Whitespace}
    IN  IF inked = {} THEN <<>>
        ELSE SubSeq(s, CHOOSE i \in inked : \A m \in inked : i <= m,
                       CHOOSE j \in inked : \A m \in inked : m <= j)

\* the non-empty trimmed tokens of a cell, in order
claimed_tokens(s) ==
    LET starts == ascending(token_starts(s))
        runs == [n \in 1..Len(starts) |->
                    trimmed(SubSeq(s, starts[n], token_end(s, starts[n])))]
    IN  SelectSeq(runs, LAMBDA t : t # <<>>)

\* the tokens of the original sheet with the text of their cell, row by row
RECURSIVE claimed_entries(_)
claimed_entries(original) ==
    IF original = <<>> THEN <<>>
    ELSE LET raw == str(Head(original))
             tokens == claimed_tokens(raw)
         IN  [n \in 1..Len(tokens) |-> <<raw, tokens[n]>>]
                \o claimed_entries(Tail(original))

has_digit(s) == \E i \in 1..Len(s) : s[i] \in Digit

RECURSIVE power_of_ten(_)
power_of_ten(n) == IF n = 0 THEN 1 ELSE 10 * power_of_ten(n - 1)

RECURSIVE sum_over(_, _)
sum_over(f, S) ==
    IF S = {} THEN 0
    ELSE LET x == CHOOSE y \in S : TRUE IN f[x] + sum_over(f, S \ {x})

\* the number the digits of s spell, leading zeros counting nothing
digits_value(s) ==
    LET d == re_sub_nondigit(s)
        place == [i \in 1..Len(d) |-> DigitValue(d[i]) * power_of_ten(Len(d) - i)]
    IN  sum_over(place, 1..Len(d))

\* the sheets of the cleaned workbook the codes are taken from: the selected
\* ones, and all of them when none is selected
sheets_used ==
    IF selected_sheets.given /\ selected_sheets.names # {}
    THEN DOMAIN cleaned_file \cap selected_sheets.names
    ELSE DOMAIN cleaned_file

\* the cells of the asset-code columns of the sheets used
cells_used ==
    UNION {
        IF ASSET_COLUMN \in cleaned_file[n].columns
        THEN {cleaned_file[n].cells[i] : i \in 1..Len(cleaned_file[n].cells)}
        ELSE {} : n \in sheets_used}

====
